---- MODULE Spec2Model ----
(***************************************************************************)
(* Model of generate-mail-extension-typings: the namespace merge engine,   *)
(* the reference resolver, the type expression compiler (getType), the     *)
(* function signature synthesizer (createFunctionDefinition) and the run   *)
(* of generateTypings from reading the schema files to writing index.d.ts. *)
(*                                                                         *)
(* Conventions.  A JavaScript array is a sequence; indices are 1-based and *)
(* "not found" (-1 in the source) is 0.  An optional field that the code   *)
(* only tests for truthiness is modelled by its falsy value ("" for a      *)
(* string, <<>> for a list the code defaults to []).  An optional field    *)
(* whose presence matters is a sequence of length at most one: <<>> is     *)
(* undefined, <<v>> is the value v.  The field oid is the identity of the  *)
(* JavaScript object: <<k, i>> is the i-th record of its list in the k-th  *)
(* schema part read.                                                       *)
(***************************************************************************)
EXTENDS Integers, Sequences, FiniteSets, TLC

VARIABLES
    namespaces,          \* the namespace Map (mergeSchema's result), entries in insertion order
    schemaPart,          \* mergeSchema: the part of the current forEach iteration
    existingSchemaPart,  \* mergeSchema: the entry found for it, <<>> when there was none
    nParts,              \* mergeSchema: how many parts have been iterated
    property,            \* the schema node handed to getType / createFunctionDefinition
    currentNamespace,    \* the currentNamespace argument of that call
    results,             \* what the successive calls on property returned
    pc,                  \* generateTypings: where the run is
    directories,         \* generateTypings: the two schema directories
    ignoredNamespaces,   \* generateTypings: the --ignored-namespaces flag
    filenames,           \* generateTypings: the contents of the files listed so far
    schemaParts,         \* readSchemaFiles: the parts read so far
    nRead,               \* readSchemaFiles: how many files have been read
    nCompiled,           \* generateTypingsFile: how many namespaces have been compiled
    data,                \* generateTypingsFile: the text assembled so far
    writes,              \* how many times writeFile has been called
    written,             \* the contents of index.d.ts, <<>> while it was never written
    log                  \* the diagnostics logged by logger.warn / logger.error

mergeVars == <<schemaPart, existingSchemaPart, nParts>>
compileVars == <<property, currentNamespace, results>>
runVars == <<pc, directories, ignoredNamespaces, filenames, schemaParts, nRead, nCompiled,
             data, writes, written>>
vars == <<namespaces, mergeVars, compileVars, runVars, log>>

----------------------------------------------------------------------------
(* Bounds of the model.                                                    *)

MaxParts == 2
MaxTypes == 2
MaxFunctions == 1
MaxEvents == 1

----------------------------------------------------------------------------
(* Array helpers.                                                          *)

\* Array.prototype.findIndex / indexOf: the first index whose test is TRUE, or 0.
\* hits[i] is the callback's result on the i-th element.
FindIndex(hits) ==
    IF \E i \in DOMAIN hits : hits[i]
    THEN CHOOSE i \in DOMAIN hits : hits[i] /\ \A j \in 1..(i - 1) : ~hits[j]
    ELSE 0

\* Array.prototype.filter: keep[i] is the callback's result on the i-th element.
Filter(s, keep) ==
    LET F[i \in 0..Len(s)] ==
            IF i = 0 THEN <<>>
            ELSE IF keep[i] THEN Append(F[i - 1], s[i]) ELSE F[i - 1]
    IN F[Len(s)]

\* Mutant: slice(start) returns the whole array.
Slice_WholeArray(s, start) == s

\* Array.prototype.slice(start) for a 0-based start that may be negative.
Slice(s, start) ==
    LET from == IF start < 0
                THEN (IF Len(s) + start < 0 THEN 0 ELSE Len(s) + start)
                ELSE start
    IN SubSeq(s, from + 1, Len(s))

\* The concatenation of a sequence of sequences.
Flatten(ss) ==
    LET F[i \in 0..Len(ss)] == IF i = 0 THEN <<>> ELSE F[i - 1] \o ss[i]
    IN F[Len(ss)]

\* The sequences over S of length at most n.
SeqUpTo(S, n) == UNION {[1..k -> S] : k \in 0..n}

----------------------------------------------------------------------------
(* String helpers.                                                         *)

\* Array.prototype.join
Join(texts, sep) ==
    LET F[i \in 0..Len(texts)] ==
            IF i = 0 THEN ""
            ELSE IF i = 1 THEN texts[1]
            ELSE F[i - 1] \o sep \o texts[i]
    IN F[Len(texts)]

\* String.prototype.indexOf(c) >= 0 for a one-character c
Contains(s, c) == \E i \in 1..Len(s) : SubSeq(s, i, i) = c

IsSpace(c) == c \in {" ", "\n", "\t", "\r"}

\* The first index from i on (the last index from i down) that holds no white space.
RECURSIVE SkipSpaceForward(_, _)
SkipSpaceForward(s, i) ==
    IF i <= Len(s) /\ IsSpace(SubSeq(s, i, i)) THEN SkipSpaceForward(s, i + 1) ELSE i

RECURSIVE SkipSpaceBackward(_, _)
SkipSpaceBackward(s, i) ==
    IF i >= 1 /\ IsSpace(SubSeq(s, i, i)) THEN SkipSpaceBackward(s, i - 1) ELSE i

\* String.prototype.trim
Trim(s) == SubSeq(s, SkipSpaceForward(s, 1), SkipSpaceBackward(s, Len(s)))

\* String.prototype.split(sep) for a one-character separator
RECURSIVE Split(_, _)
Split(s, sep) ==
    LET hit == FindIndex([i \in 1..Len(s) |-> SubSeq(s, i, i) = sep])
    IN IF hit = 0 THEN <<s>>
       ELSE <<SubSeq(s, 1, hit - 1)>> \o Split(SubSeq(s, hit + 1, Len(s)), sep)

\* String.prototype.toLocaleLowerCase on the letters A-Z
LowerCaseLetter(c) ==
    LET upper == "ABCDEFGHIJKLMNOPQRSTUVWXYZ"
        lower == "abcdefghijklmnopqrstuvwxyz"
        hit == FindIndex([i \in 1..Len(upper) |-> SubSeq(upper, i, i) = c])
    IN IF hit = 0 THEN c ELSE SubSeq(lower, hit, hit)
ToLowerCase(s) == Join([i \in 1..Len(s) |-> LowerCaseLetter(SubSeq(s, i, i))], "")

\* String.prototype.endsWith
EndsWith(s, suffix) ==
    Len(s) >= Len(suffix) /\ SubSeq(s, Len(s) - Len(suffix) + 1, Len(s)) = suffix

\* String.prototype.replace(/pat/g, rep) for a literal pattern
RECURSIVE ReplaceAll(_, _, _)
ReplaceAll(s, pat, rep) ==
    IF Len(s) < Len(pat) THEN s
    ELSE IF SubSeq(s, 1, Len(pat)) = pat
         THEN rep \o ReplaceAll(SubSeq(s, Len(pat) + 1, Len(s)), pat, rep)
         ELSE SubSeq(s, 1, 1) \o ReplaceAll(SubSeq(s, 2, Len(s)), pat, rep)

\* String.prototype.replace(/<\/?tag>/g, rep)
ReplaceTag(s, tag, rep) ==
    ReplaceAll(ReplaceAll(s, "</" \o tag \o ">", rep), "<" \o tag \o ">", rep)

----------------------------------------------------------------------------
(* Schema records.                                                         *)

Namespaces == {"mail", "compose"}

\* async: boolean | string | undefined; strict equality (===) is record equality.
AsyncUndefined == [kind |-> "undefined", bool |-> FALSE, str |-> ""]
AsyncBool(b) == [kind |-> "boolean", bool |-> b, str |-> ""]
AsyncStr(s) == [kind |-> "string", bool |-> FALSE, str |-> s]

\* A schema node with no field set: SchemaPartType, SchemaPartFunction and
\* SchemaPartFunctionParameter are all read through the same fields.
EmptyNode ==
    [id |-> "", ref |-> "", type |-> "", enum |-> <<>>, items |-> <<>>,
     choices |-> <<>>, properties |-> <<>>, functions |-> <<>>, events |-> <<>>,
     async |-> AsyncUndefined, parameters |-> <<>>, returns |-> <<>>,
     name |-> "", description |-> "", optional |-> FALSE, unsupported |-> FALSE,
     value |-> "", oid |-> <<0, 0>>]

\* A type of a part's types list: the i-th record of part k.
MergeType(id, k, i) == [EmptyNode EXCEPT !.id = id, !.type = "object", !.oid = <<k, i>>]

\* A function or event of a part.
MergeFunction(name, async, k, i) ==
    [EmptyNode EXCEPT !.name = name, !.async = async, !.parameters = << <<>> >>,
                      !.oid = <<k, i>>]

\* The properties map of part k: its entries in insertion order.
MergeProperties(k) ==
    <<[name |-> "accountId",
       prop |-> [EmptyNode EXCEPT !.ref = "accounts.MailAccount", !.oid = <<k, 1>>]]>>

EmptyPart(ns) ==
    [namespace |-> ns, description |-> "", functions |-> <<>>, types |-> <<>>,
     events |-> <<>>, properties |-> <<>>]

TypeIds == {"", "Foo", "Bar"}
FunctionNames == {"send", "delete"}
EventKeys == {<<"onSent", AsyncBool(FALSE)>>, <<"onSent", AsyncStr("callback")>>,
              <<"onMoved", AsyncBool(FALSE)>>}

\* The parts the k-th iteration of the merge may see.  Each part fills one of
\* its sections (every merge function reads one section only).
PartsAt(k) ==
    UNION { { [EmptyPart(ns) EXCEPT
                  !.types = [i \in DOMAIN ts |-> MergeType(ts[i], k, i)]] :
                  ts \in SeqUpTo(TypeIds, MaxTypes) }
            \cup
            { [EmptyPart(ns) EXCEPT
                  !.functions = [i \in DOMAIN fs |->
                                    MergeFunction(fs[i], AsyncBool(FALSE), k, i)]] :
                  fs \in SeqUpTo(FunctionNames, MaxFunctions) }
            \cup
            { [EmptyPart(ns) EXCEPT
                  !.events = [i \in DOMAIN es |->
                                 MergeFunction(es[i][1], es[i][2], k, i)]] :
                  es \in SeqUpTo(EventKeys, MaxEvents) }
            \cup
            { [EmptyPart(ns) EXCEPT !.description = d, !.properties = ps] :
                  d \in {"", "Compose <b>mail</b>"},
                  ps \in {<<>>, <<MergeProperties(k)>>} }
          : ns \in Namespaces }

----------------------------------------------------------------------------
(* Namespace merge engine.                                                 *)

mergeNamespaceFunctions(functions, existing) ==
    LET result == functions \o existing.functions
    IN Filter(result, [index \in DOMAIN result |->
           FindIndex([i \in DOMAIN result |-> result[i].oid = result[index].oid]) = index])

\* Mutant: an existing event is dropped as soon as a new event has its name.
mergeNamespaceEvents_ByNameOnly(events, existing) ==
    events \o Filter(existing.events, [j \in DOMAIN existing.events |->
                  ~\E i \in DOMAIN events : events[i].name = existing.events[j].name])

mergeNamespaceEvents(events, existing) ==
    events \o Filter(existing.events, [j \in DOMAIN existing.events |->
                  ~\E i \in DOMAIN events :
                      /\ events[i].async = existing.events[j].async
                      /\ events[i].name = existing.events[j].name])

\* Mutant: the existing entry's types are put before the new part's.
mergeNamespaceTypes_ExistingFirst(types, existing) ==
    LET result == existing.types \o types
    IN Filter(result, [index \in DOMAIN result |->
           IF result[index].id = ""
           THEN FALSE
           ELSE FindIndex([i \in DOMAIN result |-> result[i].id = result[index].id]) = index])

\* Mutant: only the first type of the existing entry is carried over.
mergeNamespaceTypes_KeepOneExisting(types, existing) ==
    LET result == types \o (IF existing.types = <<>> THEN <<>> ELSE <<existing.types[1]>>)
    IN Filter(result, [index \in DOMAIN result |->
           IF result[index].id = ""
           THEN FALSE
           ELSE FindIndex([i \in DOMAIN result |-> result[i].id = result[index].id]) = index])

mergeNamespaceTypes(types, existing) ==
    LET result == types \o existing.types
    IN Filter(result, [index \in DOMAIN result |->
           IF result[index].id = ""
           THEN FALSE   \* "return 0": falsy, the element is filtered out
           ELSE FindIndex([i \in DOMAIN result |-> result[i].id = result[index].id]) = index])

\* Mutant: the existing entry's properties are kept.
mergeNameSpaceProperties_KeepExisting(properties, existing) == existing.properties

mergeNameSpaceProperties(properties, existing) == properties

\* Map.prototype.has / get / set on a Map kept as a sequence of entries.
MapHas(map, key) == \E i \in 1..Len(map) : map[i].key = key
MapGet(map, key) == map[CHOOSE i \in 1..Len(map) : map[i].key = key].value
MapSet(map, key, value) ==
    IF MapHas(map, key)
    THEN [i \in 1..Len(map) |-> IF map[i].key = key THEN [key |-> key, value |-> value] ELSE map[i]]
    ELSE Append(map, [key |-> key, value |-> value])

\* Mutant: the merged entry carries the existing entry's description.
mergeSchemaStep_KeepDescription(map, part) ==
    IF ~MapHas(map, part.namespace)
    THEN MapSet(map, part.namespace, part)
    ELSE LET existing == MapGet(map, part.namespace)
         IN MapSet(map, part.namespace,
                   [namespace |-> part.namespace,
                    description |-> existing.description,
                    functions |-> mergeNamespaceFunctions(part.functions, existing),
                    types |-> mergeNamespaceTypes(part.types, existing),
                    properties |-> mergeNameSpaceProperties(part.properties, existing),
                    events |-> mergeNamespaceEvents(part.events, existing)])

\* The body of mergeSchema's forEach for one part.
mergeSchemaStep(map, part) ==
    IF ~MapHas(map, part.namespace)
    THEN MapSet(map, part.namespace, part)
    ELSE LET existing == MapGet(map, part.namespace)
         IN MapSet(map, part.namespace,
                   [namespace |-> part.namespace,
                    description |-> "",
                    functions |-> mergeNamespaceFunctions(part.functions, existing),
                    types |-> mergeNamespaceTypes(part.types, existing),
                    properties |-> mergeNameSpaceProperties(part.properties, existing),
                    events |-> mergeNamespaceEvents(part.events, existing)])

\* mergeSchema over a whole array of parts.
mergeSchema(parts) ==
    LET F[i \in 0..Len(parts)] ==
            IF i = 0 THEN <<>> ELSE mergeSchemaStep(F[i - 1], parts[i])
    IN F[Len(parts)]

postProcessSchemaFunctions(schemaFunctions) ==
    Filter(schemaFunctions,
           [i \in DOMAIN schemaFunctions |-> schemaFunctions[i].name # "delete"])

postProcessNamespaces(map) ==
    [i \in 1..Len(map) |->
        [key |-> map[i].key,
         value |-> [map[i].value EXCEPT
                       !.functions = postProcessSchemaFunctions(map[i].value.functions)]]]

\* Map.prototype.delete
MapDelete(map, key) == Filter(map, [i \in DOMAIN map |-> map[i].key # key])

----------------------------------------------------------------------------
(* Results of the compiling functions.  A call returns its text, or throws; *)
(* log holds the diagnostics it wrote, in order.                            *)

Returned(text, diagnostics) == [text |-> text, threw |-> FALSE, log |-> diagnostics]
Threw(diagnostics) == [text |-> "", threw |-> TRUE, log |-> diagnostics]

\* Calls made one after the other: the texts of those that returned before the
\* first one that threw, and the diagnostics up to it.
InOrder(rs) ==
    LET firstThrow == FindIndex([i \in DOMAIN rs |-> rs[i].threw])
        upto == IF firstThrow = 0 THEN Len(rs) ELSE firstThrow
    IN [texts |-> [i \in 1..(IF firstThrow = 0 THEN upto ELSE upto - 1) |-> rs[i].text],
        threw |-> firstThrow # 0,
        log |-> Flatten([i \in 1..upto |-> rs[i].log])]

\* A template string around the result of one call: `${head}${call}${tail}`.
Template(head, call, tail) ==
    LET r == call
    IN IF r.threw THEN Threw(r.log) ELSE Returned(head \o r.text \o tail, r.log)

\* A template string around the joined results of calls made in order.
Joined(head, calls, sep, tail) ==
    LET rs == InOrder(calls)
    IN IF rs.threw THEN Threw(rs.log)
       ELSE Returned(head \o Join(rs.texts, sep) \o tail, rs.log)

\* `...`.trim() on the result of a call.
Trimmed(call) ==
    LET r == call IN IF r.threw THEN r ELSE Returned(Trim(r.text), r.log)

Warn(text) == [level |-> "warn", text |-> text]
Error(text) == [level |-> "error", text |-> text]

----------------------------------------------------------------------------
(* Reference resolver.                                                     *)

\* Mutant: every namespace of the table is reported as declaring the type.
findNamespaceFortype_EveryNamespace(ref, map) == [i \in DOMAIN map |-> map[i].key]

\* Mutant: the namespaces declaring the type are reported last-to-first, so
\* that pop() takes the first one of the table.
findNamespaceFortype_Reversed(ref, map) ==
    LET found == Filter(map, [i \in DOMAIN map |->
                     \E j \in DOMAIN map[i].value.types :
                         map[i].value.types[j].id = ref])
    IN [i \in DOMAIN found |-> found[Len(found) + 1 - i].key]

findNamespaceFortype(ref, map) ==
    LET found == Filter(map, [i \in DOMAIN map |->
                     \E j \in DOMAIN map[i].value.types :
                         map[i].value.types[j].id = ref])
    IN [i \in DOMAIN found |-> found[i].key]

----------------------------------------------------------------------------
(* Type expression compiler and function signature synthesizer.            *)

\* The grave accent: a TLA+ string cannot hold the character itself.
GraveAccent == "[U+0060]"

generateDescription(description, indention) ==
    IF description # ""
    THEN Join([i \in 1..indention |-> ""], "  ") \o "  /**\n "
         \o Join([i \in 1..(indention + 1) |-> ""], "  ") \o "* "
         \o ReplaceTag(ReplaceTag(ReplaceTag(ReplaceTag(description,
                "code", GraveAccent), "b", "**"), "em", "*"), "strong", "**")
         \o "\n  */\n"
    ELSE ""

DefaultOptions ==
    [omitFunctionKeyword |-> FALSE, omitFunctionName |-> FALSE,
     omitDescription |-> FALSE, inlineFunction |-> FALSE,
     overrideDelimiter |-> ";", wrapInBrackets |-> FALSE]

\* schemaPart.parameters || []
ParametersOf(node) == IF node.parameters = <<>> THEN <<>> ELSE node.parameters[1]

\* The parameter findReturnType takes for the callback: the first one named
\* by async and typed "function"; 0 when there is none.
AsyncReturnTypeIndex(func) ==
    LET ps == ParametersOf(func)
    IN FindIndex([i \in DOMAIN ps |->
           ps[i].name = func.async.str /\ ps[i].type = "function"])

\* Whether (asyncReturnType?.parameters || []).shift() removes an element.
ShiftsParameter(func) ==
    /\ func.async.kind = "string"
    /\ AsyncReturnTypeIndex(func) # 0
    /\ ParametersOf(ParametersOf(func)[AsyncReturnTypeIndex(func)]) # <<>>

\* The function record after findReturnType: shift() has removed the first
\* nested parameter of the callback parameter from the schema itself.
AfterFindReturnType(func) ==
    IF ShiftsParameter(func)
    THEN [func EXCEPT !.parameters[1][AsyncReturnTypeIndex(func)].parameters[1] = Tail(@)]
    ELSE func

\* Mutant: only a parameter literally named "callback" is removed.
VisibleParameters_CallbackOnly(func) ==
    Filter(ParametersOf(func),
           [i \in DOMAIN ParametersOf(func) |-> ParametersOf(func)[i].name # "callback"])

\* funcParams: the parameters left visible when async is a string.
VisibleParameters(func) ==
    Filter(ParametersOf(func),
           [i \in DOMAIN ParametersOf(func) |->
               ParametersOf(func)[i].name # func.async.str])

requireAllParams(params) ==
    [i \in DOMAIN params |->
        [params[i] EXCEPT !.optional = IF params[i].name = "callback" THEN @ ELSE FALSE]]

\* Mutant: each iteration drops the last optional parameter, not the first.
RECURSIVE OverloadCascade_DropLast(_)
OverloadCascade_DropLast(params) ==
    IF \A i \in DOMAIN params : ~params[i].optional
    THEN <<params>>
    ELSE LET last == CHOOSE i \in DOMAIN params :
                         params[i].optional /\ \A j \in (i + 1)..Len(params) : ~params[j].optional
         IN <<params>> \o OverloadCascade_DropLast(
                Filter(params, [i \in DOMAIN params |-> i # last]))

\* Mutant: after the full list, every optional parameter is dropped at once.
OverloadCascade_DropAllOptional(params) ==
    IF \E i \in DOMAIN params : params[i].optional
    THEN <<params, Filter(params, [i \in DOMAIN params |-> ~params[i].optional])>>
    ELSE <<params>>

\* The parameter lists of the while loop of createFunctionDefinition: the
\* list of each iteration, and last the list left when no optional remains.
RECURSIVE OverloadCascade(_)
OverloadCascade(params) ==
    LET firstElementToBeRemoved == FindIndex([i \in DOMAIN params |-> params[i].optional])
    IN IF firstElementToBeRemoved = 0
       THEN <<params>>
       ELSE <<params>> \o OverloadCascade(
                Filter(params, [i \in DOMAIN params |-> i # firstElementToBeRemoved]))

\* One emitted signature line.
SignatureLine(paramsText, returnType, funcName, options) ==
    "  " \o (IF options.wrapInBrackets THEN "(" ELSE "")
         \o (IF options.omitFunctionKeyword THEN "" ELSE "function ")
         \o (IF options.omitFunctionName THEN "" ELSE funcName)
         \o "(" \o paramsText \o ")"
         \o (IF options.inlineFunction THEN " => " ELSE ": ")
         \o returnType
         \o (IF options.wrapInBrackets THEN ")" ELSE "")
         \o options.overrideDelimiter \o "\n"

ReservedWords == {"import", "delete", "class"}

RECURSIVE getType(_, _, _)
RECURSIVE findReturnType(_, _, _)
RECURSIVE createFunctionDefinition(_, _, _, _)
RECURSIVE generateFunctionParams(_)
RECURSIVE generatePropertyTypings(_, _, _)
RECURSIVE SignaturesFor(_, _, _, _)

\* getType(property, namespaces, currentNamespace); arg is <<>> for an
\* undefined property, map is <<>> and cur is "" when the argument is not passed.
getType(arg, map, cur) ==
    IF arg = <<>> THEN Returned("void", <<>>)
    ELSE LET p == arg[1] IN
    IF p.ref # "" THEN
        IF Contains(p.ref, ".") THEN Returned(" " \o p.ref, <<>>)
        ELSE LET namespace == findNamespaceFortype(p.ref, map) IN
             IF Len(namespace) = 0
             THEN Returned(p.ref, <<Warn("ERROR: namespace '" \o p.ref \o "' not found.")>>)
             ELSE LET targetNamespace == namespace[Len(namespace)] IN
                  IF cur # "" /\ targetNamespace = cur
                  THEN Returned(p.ref, <<>>)
                  ELSE Returned(targetNamespace \o "." \o p.ref, <<>>)
    ELSE IF p.type = "integer" THEN Returned("number", <<>>)
    ELSE IF p.type = "number" THEN Returned("number", <<>>)
    ELSE IF p.type = "string" THEN
        IF p.enum # <<>>
        THEN Returned(Trim(Join([i \in DOMAIN p.enum[1] |-> "'" \o p.enum[1][i] \o "'"],
                                "\n | ")), <<>>)
        ELSE Returned("string", <<>>)
    ELSE IF p.type = "array" THEN
        IF p.items = <<>> THEN Threw(<<>>)   \* throw new Error("Cannot create array typing")
        ELSE IF p.items[1].type # ""
        THEN Template("", getType(p.items, <<>>, ""), "[]")
        ELSE Returned(p.items[1].ref \o "[]", <<>>)
    ELSE IF p.type = "boolean" THEN Returned("boolean", <<>>)
    ELSE IF p.choices # <<>> THEN
        Joined("", [i \in DOMAIN p.choices[1] |-> getType(<<p.choices[1][i]>>, <<>>, "")],
               " | ", "")
    ELSE IF p.type = "function" THEN
        LET func == [p EXCEPT
                        !.name = "",
                        !.async = IF @.kind = "undefined" THEN AsyncBool(FALSE) ELSE @,
                        !.description = "",
                        !.parameters = IF @ = <<>> THEN << <<>> >> ELSE @]
        IN Template("/* or any?  */ ",
                    createFunctionDefinition(func, "",
                        [DefaultOptions EXCEPT !.omitFunctionKeyword = TRUE,
                                               !.omitFunctionName = TRUE,
                                               !.omitDescription = TRUE,
                                               !.inlineFunction = TRUE,
                                               !.overrideDelimiter = " , "],
                        map),
                    " /* x7 */ \n")
    ELSE IF p.type = "any" THEN Returned("any", <<>>)
    ELSE IF p.type = "object" THEN
        IF p.properties # <<>>
        THEN Joined("{\n  ",
                    [i \in DOMAIN p.properties[1] |->
                        generatePropertyTypings(p.properties[1][i].name, TRUE,
                                                p.properties[1][i].prop)],
                    "", "\n  }")
        ELSE Returned("/* \"unknown\" undefined */ object", <<>>)
    ELSE Returned("void /* could not determine correct type */", <<>>)

\* The value findReturnType returns for a string async:
\* Promise<${unwrappedAsyncReturnType || "any"}${optionalFallBackType}>.
AsyncReturnType(call, optionalFallBackType, funcParams) ==
    LET unwrappedAsyncReturnType == call IN
    [returnType |-> "Promise<"
                    \o (IF unwrappedAsyncReturnType.text = ""
                        THEN "any" ELSE unwrappedAsyncReturnType.text)
                    \o optionalFallBackType \o ">",
     parameters |-> funcParams,
     threw |-> unwrappedAsyncReturnType.threw,
     log |-> unwrappedAsyncReturnType.log]

\* The inner function of createFunctionDefinition: the return type and the
\* visible parameters.
findReturnType(func, map, cur) ==
    IF func.async.kind = "string"
    THEN IF func.parameters = <<>>
         THEN [returnType |-> "", parameters |-> <<>>, threw |-> TRUE, log |-> <<>>]
         ELSE
         LET ps == ParametersOf(func)
             found == AsyncReturnTypeIndex(func)
             nested == IF found = 0 THEN <<>> ELSE ParametersOf(ps[found])
             optionalFallBackType ==
                 IF found # 0 /\ ps[found].name = "callback" /\ ps[found].optional
                 THEN " | null" ELSE ""
             funcParams == VisibleParameters(func)
         IN AsyncReturnType(getType(IF nested = <<>> THEN <<>> ELSE <<nested[1]>>, map, cur),
                            optionalFallBackType, funcParams)
    ELSE LET ps == ParametersOf(func)
             functionResultType ==
                 IF func.returns = <<>> THEN "void"
                 ELSE IF func.returns[1].type = "array" THEN "[]"
                 ELSE IF func.returns[1].type = "" THEN "undefined"
                 ELSE func.returns[1].type
         IN [returnType |-> IF func.async = AsyncBool(TRUE)
                            THEN "Promise<any>" ELSE functionResultType,
             parameters |-> Filter(ps, [i \in DOMAIN ps |->
                                ps[i].name # "callback" /\ ps[i].name # "responseCallback"]),
             threw |-> FALSE,
             log |-> <<>>]

\* The body of createFunctionDefinition after const {returnType, parameters} =
\* findReturnType(schemaPart): the text, and the emitted signatures as
\* parameter lists and return type.
SignaturesFor(func, cur, options, call) ==
    LET found == call IN
    IF found.threw
    THEN [text |-> "", threw |-> TRUE, log |-> found.log, signatures |-> <<>>]
    ELSE
    LET returnType == found.returnType
        parameters == found.parameters
        errors == IF returnType = "ERR"
                  THEN <<Error("Unknown async type, namespace " \o cur \o ", function '"
                               \o func.name \o "': '" \o func.async.str \o "'")>>
                  ELSE <<>>
        description == IF options.omitDescription THEN ""
                       ELSE generateDescription(func.description, 0)
        firstOptionalParameterIndex ==
            FindIndex([i \in DOMAIN parameters |-> parameters[i].optional]) - 1
        trailing == Slice(parameters, firstOptionalParameterIndex)
        allTrailingAreOptional == \A i \in DOMAIN trailing : trailing[i].optional
        isNameReserved == func.name \in ReservedWords
        funcName == IF isNameReserved THEN "__" \o func.name ELSE func.name
        cascade == OverloadCascade(parameters)
        lists == IF ~allTrailingAreOptional
                 THEN [i \in DOMAIN cascade |-> requireAllParams(cascade[i])]
                 ELSE <<parameters>>
        rendered == InOrder([i \in DOMAIN lists |-> generateFunctionParams(lists[i])])
    IN IF rendered.threw
       THEN [text |-> "", threw |-> TRUE,
             log |-> found.log \o errors \o rendered.log, signatures |-> <<>>]
       ELSE [text |-> description
                      \o Join([i \in DOMAIN lists |->
                                  SignatureLine(rendered.texts[i], returnType,
                                                funcName, options)], "")
                      \o (IF isNameReserved
                          THEN "\n export { " \o funcName \o " as " \o func.name \o " }\n\n"
                          ELSE ""),
             threw |-> FALSE,
             log |-> found.log \o errors \o rendered.log,
             signatures |-> [i \in DOMAIN lists |->
                 [parameters |-> [j \in DOMAIN lists[i] |->
                                     [name |-> lists[i][j].name,
                                      optional |-> lists[i][j].optional]],
                  returnType |-> returnType]]]

\* createFunctionDefinition(schemaPart, currentNamespace, options, namespaces)
createFunctionDefinition(func, cur, options, map) ==
    SignaturesFor(func, cur, options, findReturnType(func, map, cur))

generateFunctionParams(parameters) ==
    LET functionParam(param) ==
            [param EXCEPT !.parameters =
                IF @ = <<>> THEN <<>>
                ELSE <<[i \in DOMAIN @[1] |->
                          [EmptyNode EXCEPT !.name = param.parameters[1][i].name,
                                            !.optional = param.parameters[1][i].optional,
                                            !.type = param.parameters[1][i].type,
                                            !.description = param.parameters[1][i].description,
                                            !.parameters = << <<>> >>]]>>]
    IN Joined("",
              [i \in DOMAIN parameters |->
                  Trimmed(Template(generateDescription(parameters[i].description, 0) \o "\n"
                                   \o parameters[i].name
                                   \o (IF parameters[i].optional THEN "?" ELSE "")
                                   \o ": ",
                                   getType(<<functionParam(parameters[i])>>, <<>>, ""),
                                   ""))],
              ", ", "")

\* generatePropertyTypings({name, isInterfaceProperty, ...prop})
generatePropertyTypings(name, isInterfaceProperty, prop) ==
    LET p == [prop EXCEPT !.name = IF @ = "" THEN name ELSE @]
    IN IF p.unsupported THEN Returned("", <<>>)
       ELSE IF p.choices # <<>> /\ ~isInterfaceProperty
       THEN Template(generateDescription(p.description, 0) \o "  type " \o p.name \o " = ",
                     getType(<<p>>, <<>>, ""),
                     ";\n")
       ELSE Template(generateDescription(p.description, 1) \o "    " \o p.name
                     \o (IF p.optional THEN "?" ELSE "") \o ": ",
                     getType(<<p>>, <<>>, ""),
                     "\n")

IdleCompile ==
    /\ property = <<>>
    /\ currentNamespace = ""
    /\ results = <<>>

IdleRun ==
    /\ pc = "idle"
    /\ directories = <<>>
    /\ ignoredNamespaces = ""
    /\ filenames = <<>>
    /\ schemaParts = <<>>
    /\ nRead = 0
    /\ nCompiled = 0
    /\ data = ""
    /\ writes = 0
    /\ written = <<>>

IdleMerge ==
    /\ schemaPart = <<>>
    /\ existingSchemaPart = <<>>
    /\ nParts = 0

InitMerge ==
    /\ namespaces = <<>>
    /\ IdleMerge
    /\ IdleCompile
    /\ IdleRun
    /\ log = <<>>

\* One iteration of schemaParts.forEach in mergeSchema.
MergePart ==
    /\ nParts < MaxParts
    /\ \E part \in PartsAt(nParts + 1) :
        /\ schemaPart' = <<part>>
        /\ existingSchemaPart' =
               IF MapHas(namespaces, part.namespace)
               THEN <<MapGet(namespaces, part.namespace)>> ELSE <<>>
        /\ namespaces' = mergeSchemaStep(namespaces, part)
    /\ nParts' = nParts + 1
    /\ UNCHANGED <<compileVars, runVars, log>>

NextMerge == MergePart

SpecMerge == InitMerge /\ [][NextMerge]_vars

----------------------------------------------------------------------------
(* createFunctionDefinition on one function of the schema.                 *)

MaxParams == 3

Param(name, type, optional) ==
    [EmptyNode EXCEPT !.name = name, !.type = type, !.optional = optional]

CallbackParam(name, optional, nested) ==
    [EmptyNode EXCEPT !.name = name, !.type = "function", !.optional = optional,
                      !.parameters = <<nested>>]

\* The parameters a function under test may declare at position i: a plain
\* parameter named after its position or named callback, or a function-typed
\* callback / responseCallback parameter.
FunctionParamsAt(i) ==
    {Param("p" \o ToString(i), "string", o) : o \in BOOLEAN}
    \cup {Param("callback", "string", TRUE)}
    \cup {CallbackParam("callback", o, nested) :
              o \in BOOLEAN, nested \in {<<>>, <<[EmptyNode EXCEPT !.type = "integer"]>>}}
    \cup {CallbackParam("responseCallback", o, <<[EmptyNode EXCEPT !.type = "integer"]>>) :
              o \in BOOLEAN}

FunctionParamLists ==
    UNION {{ps \in [1..n -> UNION {FunctionParamsAt(i) : i \in 1..n}] :
               \A i \in 1..n : ps[i] \in FunctionParamsAt(i)} : n \in 0..MaxParams}

FunctionAsyncs ==
    {AsyncBool(FALSE), AsyncBool(TRUE),
     AsyncStr("callback"), AsyncStr("responseCallback"), AsyncStr("done")}

FunctionDefs ==
    {[EmptyNode EXCEPT !.name = "send", !.async = a, !.parameters = <<ps>>] :
        a \in FunctionAsyncs, ps \in FunctionParamLists}

\* The options of the call sites: generateFunctionTypings, generateEventTypings
\* and the functions of an object type in generateTypeTypings.
EventOptions ==
    [DefaultOptions EXCEPT !.omitFunctionName = TRUE, !.omitFunctionKeyword = TRUE,
                           !.inlineFunction = TRUE, !.overrideDelimiter = " | ",
                           !.wrapInBrackets = TRUE]
TypeFunctionOptions ==
    [DefaultOptions EXCEPT !.omitDescription = TRUE, !.omitFunctionKeyword = TRUE]

\* A namespace table in which only compose declares Foo.
ComposeDeclaresFoo ==
    <<[key |-> "mail", value |-> EmptyPart("mail")],
      [key |-> "compose",
       value |-> [EmptyPart("compose") EXCEPT !.types = <<MergeType("Foo", 1, 1)>>]]>>

\* The call sites of createFunctionDefinition with the namespace and options
\* each passes.
CallSites ==
    {[currentNamespace |-> "mail", options |-> DefaultOptions],
     [currentNamespace |-> "", options |-> EventOptions],
     [currentNamespace |-> "", options |-> TypeFunctionOptions]}

InitFunc ==
    /\ namespaces = ComposeDeclaresFoo
    /\ IdleMerge
    /\ IdleRun
    /\ property \in {<<f>> : f \in FunctionDefs}
    /\ currentNamespace = ""
    /\ results = <<>>
    /\ log = <<>>

\* One call of createFunctionDefinition on the function, from one call site.
CreateFunctionDefinition ==
    /\ results = <<>>
    /\ property # <<>>
    /\ \E site \in CallSites :
         LET definition == createFunctionDefinition(property[1], site.currentNamespace,
                                                    site.options, namespaces)
         IN /\ currentNamespace' = site.currentNamespace
            /\ results' = Append(results, [of |-> property[1], options |-> site.options,
                                           returned |-> definition])
            /\ log' = log \o definition.log
    /\ property' = <<AfterFindReturnType(property[1])>>
    /\ UNCHANGED <<namespaces, mergeVars, runVars>>

NextFunc == CreateFunctionDefinition

SpecFunc == InitFunc /\ [][NextFunc]_vars

----------------------------------------------------------------------------
(* getType on one schema node, called repeatedly on the same node.         *)

MaxCalls == 2

IntegerNode == [EmptyNode EXCEPT !.type = "integer"]
RefNode(ref) == [EmptyNode EXCEPT !.ref = ref]
ArrayNode(items) == [EmptyNode EXCEPT !.type = "array", !.items = items]
FunctionNode(async, params) ==
    [EmptyNode EXCEPT !.type = "function", !.async = async, !.parameters = params]

\* The nodes compiled: every branch of getType.
TypeNodes ==
    {RefNode(r) : r \in {"Foo", "Bar", "compose.Foo"}}
    \cup {[EmptyNode EXCEPT !.type = t] :
              t \in {"integer", "number", "string", "boolean", "any", "object", "url", ""}}
    \cup {[EmptyNode EXCEPT !.type = "string", !.enum = << <<"to", "cc">> >>]}
    \cup {ArrayNode(items) :
              items \in {<<>>, <<[EmptyNode EXCEPT !.type = "string"]>>,
                         <<RefNode("Foo")>>, <<RefNode("compose.Foo")>>,
                         <<ArrayNode(<<>>)>>}}
    \cup {[EmptyNode EXCEPT !.choices = << <<[EmptyNode EXCEPT !.type = "string"], n>> >>] :
              n \in {RefNode("Foo"), ArrayNode(<<>>)}}
    \cup {[EmptyNode EXCEPT !.type = "object",
                            !.properties = << <<[name |-> "folder", prop |-> n]>> >>] :
              n \in {RefNode("Foo"), [EmptyNode EXCEPT !.type = "string", !.optional = TRUE],
                     ArrayNode(<<>>)}}
    \cup {FunctionNode(a, ps) :
              a \in {AsyncUndefined, AsyncBool(TRUE), AsyncStr("callback")},
              ps \in {<<>>} \cup
                      {<< <<Param("id", "string", FALSE),
                            CallbackParam("callback", o, nested)>> >> :
                          o \in BOOLEAN,
                          nested \in {<<>>, <<IntegerNode>>, <<RefNode("Foo"), IntegerNode>>}}}

\* The namespace tables: mail and compose in either insertion order, each
\* declaring the type Foo or not.
TypeTables ==
    {[i \in 1..2 |->
         [key |-> order[i],
          value |-> [EmptyPart(order[i]) EXCEPT
                        !.types = IF order[i] \in declaring
                                  THEN <<MergeType("Foo", i, 1)>> ELSE <<>>]]] :
        order \in {<<"mail", "compose">>, <<"compose", "mail">>},
        declaring \in SUBSET Namespaces}

InitType ==
    /\ namespaces \in TypeTables
    /\ IdleMerge
    /\ IdleRun
    /\ property \in {<<n>> : n \in TypeNodes}
    /\ currentNamespace \in Namespaces \cup {""}
    /\ results = <<>>
    /\ log = <<>>

\* The node after getType(node): compiling a function-typed node runs
\* findReturnType on the node's own parameters array.
AfterGetType(node) ==
    IF node.ref = "" /\ node.type = "function" /\ node.choices = <<>>
       /\ node.parameters # <<>>
    THEN [node EXCEPT !.parameters = AfterFindReturnType(node).parameters]
    ELSE node

\* One call getType(property, namespaces, currentNamespace).
GetType ==
    /\ Len(results) < MaxCalls
    /\ property # <<>>
    /\ (results # <<>> => ~results[Len(results)].returned.threw)
    /\ LET returned == getType(property, namespaces, currentNamespace)
       IN /\ results' = Append(results, [of |-> property[1], returned |-> returned])
          /\ log' = log \o returned.log
    /\ property' = <<AfterGetType(property[1])>>
    /\ UNCHANGED <<namespaces, currentNamespace, mergeVars, runVars>>

NextType == GetType

SpecType == InitType /\ [][NextType]_vars

----------------------------------------------------------------------------
(* Declaration emitter.                                                    *)

\* `${schemaPart.id}` in a template string
IdText(id) == IF id = "" THEN "undefined" ELSE id

\* The text generateTypeTypings adds for one type of the namespace.
TypeTyping(type, map) ==
    LET description == generateDescription(type.description, 0)
        entries == IF type.properties = <<>> THEN <<>> ELSE type.properties[1]
    IN
    IF type.type = "object" THEN
        Joined(description \o "  export interface " \o IdText(type.id) \o " {\n",
               << Joined("",
                         [i \in DOMAIN entries |->
                             generatePropertyTypings(entries[i].name, TRUE, entries[i].prop)],
                         "",
                         IF type.properties # <<>> THEN "\n" ELSE ""),
                  Joined("",
                         [i \in DOMAIN type.functions |->
                             Template(generateDescription(type.functions[i].description, 0)
                                      \o "\n",
                                      createFunctionDefinition(type.functions[i], "",
                                          [DefaultOptions EXCEPT !.omitDescription = TRUE,
                                                                 !.omitFunctionKeyword = TRUE],
                                          map),
                                      "\n")],
                         "",
                         IF type.functions # <<>> THEN "\n" ELSE "") >>,
               "",
               "  }\n" \o "\n")
    ELSE IF type.type = "string" \/ type.type = "url" THEN
        Returned(description \o description \o "  type " \o IdText(type.id) \o " = string;" \o "\n",
                 <<>>)
    ELSE IF type.id # "" THEN
        Template(description \o "  type " \o type.id \o " = ",
                 getType(<<type>>, <<>>, ""),
                 ";" \o "\n")
    ELSE Returned(description \o "\n", <<>>)

generateTypeTypings(cur, map) ==
    Joined("",
           [i \in DOMAIN MapGet(map, cur).types |-> TypeTyping(MapGet(map, cur).types[i], map)],
           "", "")

generateFunctionTypings(cur, map) ==
    Joined("",
           [i \in DOMAIN MapGet(map, cur).functions |->
               createFunctionDefinition(MapGet(map, cur).functions[i], cur,
                                        DefaultOptions, map)],
           "", "")

\* One iteration of the forEach of generateEventTypings: result before it, and
\* the definition createFunctionDefinition returns for the event.
EventTyping(result, name, call) ==
    LET before == result
        definition == call
        text == before.text \o "    const " \o name \o ": EventHandler<" \o definition.text
    IN IF before.threw THEN before
       ELSE IF definition.threw THEN Threw(before.log \o definition.log)
       ELSE Returned(SubSeq(text, 1, Len(text) - 4) \o ">;\n",
                     before.log \o definition.log)

\* The forEach of generateEventTypings: the result after the first n events.
RECURSIVE EventTypings(_, _, _)
EventTypings(events, n, map) ==
    IF n = 0 THEN Returned("", <<>>)
    ELSE EventTyping(EventTypings(events, n - 1, map),
                     events[n].name,
                     createFunctionDefinition(events[n], "",
                         [DefaultOptions EXCEPT !.omitFunctionName = TRUE,
                                                !.omitFunctionKeyword = TRUE,
                                                !.inlineFunction = TRUE,
                                                !.overrideDelimiter = " | ",
                                                !.wrapInBrackets = TRUE],
                         map))

generateEventTypings(cur, map) ==
    EventTypings(MapGet(map, cur).events, Len(MapGet(map, cur).events), map)

generateNamespacePropertyTypings(cur, map) ==
    LET schema == MapGet(map, cur)
        entries == IF schema.properties = <<>> THEN <<>> ELSE schema.properties[1]
    IN Joined("",
              [i \in DOMAIN entries |->
                  IF entries[i].prop.ref # ""
                  THEN Template(generateDescription(entries[i].prop.description, 0)
                                \o "const " \o entries[i].name \o ": ",
                                getType(<<entries[i].prop>>, <<>>, ""),
                                ";\n")
                  ELSE IF entries[i].prop.value # ""
                  THEN Returned(generateDescription(entries[i].prop.description, 0)
                                \o "const " \o entries[i].name \o " = "
                                \o entries[i].prop.value \o ";\n", <<>>)
                  ELSE Returned(generateDescription(entries[i].prop.description, 0), <<>>)],
              "", "")

\* The head of index.d.ts.
Preamble ==
    "interface Window {\n    browser: typeof browser;\n    messenger: typeof browser;\n}\n\n"
    \o "import messenger = browser;\n\n"
    \o "interface EventHandler<T> {\n"
    \o "  readonly addListener: (callback: T) => void;\n"
    \o "  readonly hasListener: (callback: T) => boolean;\n"
    \o "  readonly removeListener: (callback: T) => void;\n}\n\n"

\* The body of the namespaces.forEach of generateTypingsFile for the i-th
\* namespace of the table: the text it appends to data, unless it throws.
NamespaceBlock(map, i) ==
    Joined(generateDescription(map[i].value.description, 0)
           \o "declare namespace browser." \o map[i].key \o " {\n",
           <<generateTypeTypings(map[i].key, map),
             generateFunctionTypings(map[i].key, map),
             generateEventTypings(map[i].key, map),
             generateNamespacePropertyTypings(map[i].key, map)>>,
           "",
           "}\n\n")

\* The i-th namespace after it was compiled: findReturnType has shifted the
\* callback parameters of its functions, its events and its types' functions.
AfterNamespaceBlock(map, i) ==
    [map EXCEPT ![i].value =
        [@ EXCEPT
            !.functions = [j \in DOMAIN @ |-> AfterFindReturnType(@[j])],
            !.events = [j \in DOMAIN @ |-> AfterFindReturnType(@[j])],
            !.types = [j \in DOMAIN @ |->
                          IF @[j].type = "object"
                          THEN [@[j] EXCEPT !.functions =
                                   [k \in DOMAIN @ |-> AfterFindReturnType(@[k])]]
                          ELSE IF @[j].type \notin {"string", "url"} /\ @[j].id # ""
                          THEN AfterGetType(@[j])
                          ELSE @[j]]]]

----------------------------------------------------------------------------
(* The run of generateTypings.                                             *)

MaxFiles == 2

\* The record read from file n at position i of its list: JSON.parse makes a
\* new object for every record of every file.
ReadRecord(node, n, i) == [node EXCEPT !.oid = <<n, i>>]
ReadPart(part, n) ==
    [part EXCEPT !.functions = [i \in DOMAIN @ |-> ReadRecord(@[i], n, i)],
                 !.types = [i \in DOMAIN @ |-> ReadRecord(@[i], n, i)],
                 !.events = [i \in DOMAIN @ |-> ReadRecord(@[i], n, i)]]

\* The parts the schema files of a run hold.
RunParts ==
    { [EmptyPart("mail") EXCEPT
          !.description = "Send <code>mail</code>",
          !.types = <<[EmptyNode EXCEPT
                          !.id = "Foo", !.type = "object",
                          !.properties = << <<[name |-> "a",
                                               prop |-> [EmptyNode EXCEPT !.type = "string"]]>> >>]>>,
          !.functions = <<[EmptyNode EXCEPT
                              !.name = "send", !.async = AsyncStr("callback"),
                              !.parameters = << <<Param("a", "string", FALSE),
                                                  CallbackParam("callback", FALSE,
                                                                <<RefNode("Foo")>>)>> >>]>>],
      [EmptyPart("mail") EXCEPT
          !.types = <<[EmptyNode EXCEPT
                          !.id = "Foo", !.type = "object",
                          !.properties = << <<[name |-> "b",
                                               prop |-> [EmptyNode EXCEPT !.type = "number"]]>> >>],
                      [ArrayNode(<<>>) EXCEPT !.id = "Ids"]>>],
      [EmptyPart("compose") EXCEPT
          !.types = <<[EmptyNode EXCEPT !.id = "Foo", !.type = "string"], ArrayNode(<<>>)>>,
          !.events = <<[EmptyNode EXCEPT
                           !.name = "onSent", !.async = AsyncBool(FALSE),
                           !.parameters = << <<Param("id", "string", TRUE)>> >>]>>,
          !.properties = << <<[name |-> "current", prop |-> RefNode("Foo")]>> >>],
      [EmptyPart("compose") EXCEPT
          !.functions = <<[EmptyNode EXCEPT
                              !.name = "delete", !.async = AsyncBool(TRUE),
                              !.parameters = << <<>> >>],
                          [EmptyNode EXCEPT
                              !.name = "list", !.async = AsyncBool(FALSE),
                              !.parameters = << <<[ArrayNode(<<>>) EXCEPT !.name = "ids"]>> >>]>>] }

\* A directory entry: its name, whether it is a file, and what JSON.parse
\* makes of its contents: an array of parts, another value, or a SyntaxError.
DirectoryEntries ==
    {[name |-> "schema.json", isFile |-> TRUE, json |-> "array", parts |-> <<part>>] :
         part \in RunParts}
    \cup {[name |-> "broken.JSON", isFile |-> TRUE, json |-> "object", parts |-> <<>>],
          [name |-> "invalid.json", isFile |-> TRUE, json |-> "invalid", parts |-> <<>>],
          [name |-> "README.md", isFile |-> TRUE, json |-> "invalid", parts |-> <<>>]}

\* The schema directory: missing, or its entries in the order opendir yields them.
SchemaDirectories ==
    {[exists |-> FALSE, entries |-> <<>>]}
    \cup {[exists |-> TRUE, entries |-> es] : es \in SeqUpTo(DirectoryEntries, MaxFiles)}

\* The browser schema directory: missing, empty, or holding one file.
BrowserSchemaDirectories ==
    {[exists |-> FALSE, entries |-> <<>>], [exists |-> TRUE, entries |-> <<>>]}
    \cup {[exists |-> TRUE, entries |-> <<e>>] :
              e \in {d \in DirectoryEntries :
                        d.json = "object" \/ (d.parts # <<>> /\ d.parts[1].events # <<>>)}}

InitRun ==
    /\ namespaces = <<>>
    /\ IdleMerge
    /\ IdleCompile
    /\ pc = "schemaDirectory"
    /\ directories \in {<<d, b>> : d \in SchemaDirectories, b \in BrowserSchemaDirectories}
    /\ ignoredNamespaces \in {"", "compose", "test,mail"}
    /\ filenames = <<>>
    /\ schemaParts = <<>>
    /\ nRead = 0
    /\ nCompiled = 0
    /\ data = ""
    /\ writes = 0
    /\ written = <<>>
    /\ log = <<>>

\* readSchemaFileNames(directoryName): the files of the directory whose name
\* ends with .json, or none with a warning when the directory is missing.
readSchemaFileNames(directory) ==
    IF ~directory.exists
    THEN Returned(<<>>, <<Warn("Directory not found")>>)
    ELSE Returned(Filter(directory.entries, [i \in DOMAIN directory.entries |->
                      /\ directory.entries[i].isFile
                      /\ EndsWith(ToLowerCase(directory.entries[i].name), ".json")]),
                  <<>>)

\* await readSchemaFileNames(schemaDirectory)
ListSchemaDirectory ==
    /\ pc = "schemaDirectory"
    /\ filenames' = readSchemaFileNames(directories[1]).text
    /\ log' = log \o readSchemaFileNames(directories[1]).log
    /\ pc' = "browserSchemaDirectory"
    /\ UNCHANGED <<namespaces, mergeVars, compileVars, directories, ignoredNamespaces,
                   schemaParts, nRead, nCompiled, data, writes, written>>

\* await readSchemaFileNames(browserSchemaDirectory)
ListBrowserSchemaDirectory ==
    /\ pc = "browserSchemaDirectory"
    /\ filenames' = filenames \o readSchemaFileNames(directories[2]).text
    /\ log' = log \o readSchemaFileNames(directories[2]).log
    /\ pc' = "readSchemaFiles"
    /\ UNCHANGED <<namespaces, mergeVars, compileVars, directories, ignoredNamespaces,
                   schemaParts, nRead, nCompiled, data, writes, written>>

\* One iteration of readSchemaFiles: await readSchemaInformationFromFile(filename).
\* JSON.parse throws on invalid text and the function throws on a value that
\* is no array; either rejects generateTypings.
ReadSchemaFile ==
    /\ pc = "readSchemaFiles"
    /\ nRead < Len(filenames)
    /\ nRead' = nRead + 1
    /\ IF filenames[nRead + 1].json = "array"
       THEN /\ schemaParts' = schemaParts \o
                    [i \in DOMAIN filenames[nRead + 1].parts |->
                        ReadPart(filenames[nRead + 1].parts[i], nRead + 1)]
            /\ pc' = pc
       ELSE /\ schemaParts' = schemaParts
            /\ pc' = "rejected"
    /\ UNCHANGED <<namespaces, mergeVars, compileVars, directories, ignoredNamespaces,
                   filenames, nCompiled, data, writes, written, log>>

\* namespaces.delete(name) for every name of the list
RECURSIVE DeleteAll(_, _)
DeleteAll(map, names) ==
    IF names = <<>> THEN map ELSE DeleteAll(MapDelete(map, Head(names)), Tail(names))

\* The table generateTypings hands to generateTypingsFile:
\* postProcessNamespaces(mergeSchema(schemaParts)) without the ignored namespaces.
MergedNamespaces(parts, ignored) ==
    IF ignored # ""
    THEN DeleteAll(postProcessNamespaces(mergeSchema(parts)), Split(ignored, ","))
    ELSE postProcessNamespaces(mergeSchema(parts))

\* After the last file: the merge, the removal of the ignored namespaces, and
\* the start of generateTypingsFile.
MergeSchemaParts ==
    /\ pc = "readSchemaFiles"
    /\ nRead = Len(filenames)
    /\ namespaces' = MergedNamespaces(schemaParts, ignoredNamespaces)
    /\ data' = Preamble
    /\ pc' = "generateTypingsFile"
    /\ UNCHANGED <<mergeVars, compileVars, directories, ignoredNamespaces, filenames,
                   schemaParts, nRead, nCompiled, writes, written, log>>

\* Mutant: an exception thrown while a namespace is compiled is swallowed and
\* the loop goes on with the next namespace.
CompileNamespace_ContinueAfterThrow ==
    /\ pc = "generateTypingsFile"
    /\ nCompiled < Len(namespaces)
    /\ \E block \in {NamespaceBlock(namespaces, nCompiled + 1)} :
           /\ log' = log \o block.log
           /\ data' = IF block.threw THEN data ELSE data \o block.text
    /\ pc' = pc
    /\ namespaces' = AfterNamespaceBlock(namespaces, nCompiled + 1)
    /\ nCompiled' = nCompiled + 1
    /\ UNCHANGED <<mergeVars, compileVars, directories, ignoredNamespaces, filenames,
                   schemaParts, nRead, writes, written>>

\* One iteration of namespaces.forEach in generateTypingsFile; an exception
\* thrown by getType leaves generateTypingsFile before writeFile is reached.
CompileNamespace ==
    /\ pc = "generateTypingsFile"
    /\ nCompiled < Len(namespaces)
    /\ \E block \in {NamespaceBlock(namespaces, nCompiled + 1)} :
           /\ log' = log \o block.log
           /\ IF block.threw
              THEN /\ pc' = "rejected"
                   /\ data' = data
              ELSE /\ pc' = pc
                   /\ data' = data \o block.text
    /\ namespaces' = AfterNamespaceBlock(namespaces, nCompiled + 1)
    /\ nCompiled' = nCompiled + 1
    /\ UNCHANGED <<mergeVars, compileVars, directories, ignoredNamespaces, filenames,
                   schemaParts, nRead, writes, written>>

\* await writeFile(index.d.ts, data, {flag: "w+"}): the file is written, or
\* the call fails (the output directory is not writable) and writes nothing.
WriteFile ==
    /\ pc = "generateTypingsFile"
    /\ nCompiled = Len(namespaces)
    /\ writes' = writes + 1
    /\ \/ written' = <<data>> /\ pc' = "done"
       \/ written' = written /\ pc' = "rejected"
    /\ UNCHANGED <<namespaces, mergeVars, compileVars, directories, ignoredNamespaces,
                   filenames, schemaParts, nRead, nCompiled, data, log>>

Next ==
    \/ ListSchemaDirectory
    \/ ListBrowserSchemaDirectory
    \/ ReadSchemaFile
    \/ MergeSchemaParts
    \/ CompileNamespace
    \/ WriteFile

Init == InitRun

Spec == Init /\ [][Next]_vars

----------------------------------------------------------------------------
(* mergeSchema on three parts of one namespace, grouped in both ways.      *)

\* Map.prototype.values
MapValues(map) == [i \in DOMAIN map |-> map[i].value]

\* The parts A, B and C: parts of mail with up to MaxTypes types each.
AssociatedParts ==
    {[k \in 1..3 |->
         [EmptyPart("mail") EXCEPT
             !.types = [i \in DOMAIN ts[k] |-> MergeType(ts[k][i], k, i)]]] :
        ts \in [1..3 -> SeqUpTo(TypeIds, MaxTypes)]}

InitGrouped ==
    /\ namespaces = <<>>
    /\ IdleMerge
    /\ IdleCompile
    /\ pc = "idle"
    /\ directories = <<>>
    /\ ignoredNamespaces = ""
    /\ filenames = <<>>
    /\ schemaParts \in AssociatedParts
    /\ nRead = 0
    /\ nCompiled = 0
    /\ data = ""
    /\ writes = 0
    /\ written = <<>>
    /\ log = <<>>

\* mergeSchema([A, B]) and then its entry merged with C; mergeSchema([B, C])
\* and then A merged with its entry.
MergeGrouped ==
    /\ results = <<>>
    /\ Len(schemaParts) = 3
    /\ results' =
           <<[left |-> mergeSchema(MapValues(mergeSchema(SubSeq(schemaParts, 1, 2)))
                                   \o SubSeq(schemaParts, 3, 3)),
              right |-> mergeSchema(SubSeq(schemaParts, 1, 1)
                                    \o MapValues(mergeSchema(SubSeq(schemaParts, 2, 3))))]>>
    /\ namespaces' = mergeSchema(schemaParts)
    /\ UNCHANGED <<mergeVars, property, currentNamespace, runVars, log>>

NextGrouped == MergeGrouped

SpecGrouped == InitGrouped /\ [][NextGrouped]_vars

----------------------------------------------------------------------------
(* Claims about the namespace merge engine, under SpecMerge.               *)

\* The state is right after a part was merged into an existing entry.
MergedIntoExisting == existingSchemaPart # <<>>
NewPart == schemaPart[1]
ExistingEntry == existingSchemaPart[1]
MergedEntry == MapGet(namespaces, NewPart.namespace)

Range(s) == {s[i] : i \in DOMAIN s}
WithId(types, id) == Filter(types, [i \in DOMAIN types |-> types[i].id = id])
DeclaredByBoth(id) ==
    /\ id # ""
    /\ Len(WithId(NewPart.types, id)) > 0
    /\ Len(WithId(ExistingEntry.types, id)) > 0

\* C1 as claimed: when file 1 and then file 2 of one namespace both declare a
\* type id, the merged namespace holds exactly one type with that id and it is
\* file 1's definition.
C1_FirstFileWins ==
    (MergedIntoExisting /\ nParts = 2) =>
        \A id \in TypeIds :
            DeclaredByBoth(id) =>
                /\ Len(WithId(MergedEntry.types, id)) = 1
                /\ WithId(MergedEntry.types, id)[1].oid[1] = 1

\* C1 amended: when a part is merged into an existing entry and both declare a
\* type id, the merged entry holds exactly one type with that id and it is the
\* first such type of the part merged last (file 2's definition for two files).
C1_LastPartWins ==
    MergedIntoExisting =>
        \A id \in TypeIds :
            DeclaredByBoth(id) =>
                /\ Len(WithId(MergedEntry.types, id)) = 1
                /\ WithId(MergedEntry.types, id)[1] = WithId(NewPart.types, id)[1]
                /\ WithId(MergedEntry.types, id)[1].oid[1] = nParts

C1_Witness ==
    /\ MergedIntoExisting
    /\ nParts = 2
    /\ DeclaredByBoth("Foo")
    /\ WithId(ExistingEntry.types, "Foo")[1].oid[1] = 1
    /\ WithId(MergedEntry.types, "Foo")[1].oid[1] = 2

\* C2 as claimed: when a part is merged into an existing entry, every type
\* without an id of the new part and of the existing entry is in the merged
\* types list.
C2_AnonymousTypesRetained ==
    MergedIntoExisting =>
        \A t \in Range(NewPart.types) \cup Range(ExistingEntry.types) :
            t.id = "" => t \in Range(MergedEntry.types)

EventKey(event) == <<event.async, event.name>>

\* C12: when a part is merged into an existing entry, the merged event list is
\* all events of the new part in order, followed by exactly those events of
\* the existing entry, in order, whose (async, name) pair is that of no event
\* of the new part; on a tie the new part's event is the one kept.
C12_NewEventsThenUnmatchedExisting ==
    MergedIntoExisting =>
        LET new == NewPart.events
            old == ExistingEntry.events
            merged == MergedEntry.events
            rest == SubSeq(merged, Len(new) + 1, Len(merged))
        IN /\ Len(merged) >= Len(new)
           /\ SubSeq(merged, 1, Len(new)) = new
           /\ rest = Filter(old, [j \in DOMAIN old |->
                         EventKey(old[j]) \notin {EventKey(e) : e \in Range(new)}])
           /\ \A e \in Range(old) :
                  EventKey(e) \in {EventKey(n) : n \in Range(new)} =>
                      (e \in Range(merged) <=> e \in Range(new))

\* A merge in which the new part's onSent replaces the existing entry's event
\* of the same async and name.
C12_Witness ==
    /\ MergedIntoExisting
    /\ nParts = 2
    /\ Len(NewPart.events) = 1
    /\ Len(ExistingEntry.events) = 1
    /\ EventKey(NewPart.events[1]) = EventKey(ExistingEntry.events[1])
    /\ MergedEntry.events = NewPart.events
    /\ MergedEntry.events[1].oid = <<2, 1>>

\* The ids of the types of namespace mail in a table.
TypeIdSet(map) == {t.id : t \in Range(MapGet(map, "mail").types)}

\* C13 (under SpecGrouped): for three parts A, B, C of one namespace, merging
\* the result of merging [A, B] with C and merging A with the result of
\* merging [B, C] give the same set of type ids for the namespace.
C13_TypeIdSetAssociative ==
    results # <<>> =>
        /\ TypeIdSet(results[1].left) = TypeIdSet(results[1].right)
        /\ TypeIdSet(results[1].left) = TypeIdSet(namespaces)

\* A holds Foo, B holds Bar and C holds no type: both groupings keep Foo and Bar.
C13_Witness ==
    /\ results # <<>>
    /\ [i \in DOMAIN schemaParts[1].types |-> schemaParts[1].types[i].id] = <<"", "Foo">>
    /\ [i \in DOMAIN schemaParts[2].types |-> schemaParts[2].types[i].id] = <<"Bar", "Foo">>
    /\ schemaParts[3].types = <<>>
    /\ TypeIdSet(results[1].left) = {"Foo", "Bar"}
    /\ TypeIdSet(results[1].right) = {"Foo", "Bar"}

----------------------------------------------------------------------------
(* Claims about createFunctionDefinition, under SpecFunc.                  *)

\* The function handed to the call, and what the call returned.
Compiled == results # <<>>
CompiledFunction == results[1].of
Definition == results[1].returned

NamesParameter(func) ==
    /\ func.async.kind = "string"
    /\ \E i \in DOMAIN ParametersOf(func) : ParametersOf(func)[i].name = func.async.str

\* C4: for a function whose async is a string naming one of its parameters p,
\* no emitted signature (the single one or any overload of the cascade) has p
\* in its parameter list.
C4_AsyncParameterElided ==
    (Compiled /\ NamesParameter(CompiledFunction)) =>
        \A s \in DOMAIN Definition.signatures :
            \A j \in DOMAIN Definition.signatures[s].parameters :
                Definition.signatures[s].parameters[j].name # CompiledFunction.async.str

C4_Witness ==
    /\ Compiled
    /\ CompiledFunction.async = AsyncStr("responseCallback")
    /\ NamesParameter(CompiledFunction)
    /\ Len(Definition.signatures) >= 2
    /\ Len(Definition.signatures[1].parameters) >= 2

\* C5 as claimed: when async is a string naming no function-typed parameter,
\* createFunctionDefinition logs a diagnostic and emits a signature with return
\* type Promise<any> and an empty parameter list, without throwing.
C5_UnknownAsyncFallsBack ==
    (/\ Compiled
     /\ CompiledFunction.async.kind = "string"
     /\ AsyncReturnTypeIndex(CompiledFunction) = 0) =>
        /\ ~Definition.threw
        /\ Definition.log # <<>>
        /\ Len(Definition.signatures) = 1
        /\ Definition.signatures[1].returnType = "Promise<any>"
        /\ Definition.signatures[1].parameters = <<>>

\* The visible parameters of the compiled function are [opt1?, req1, opt2?].
VisibleParametersOf(func) ==
    IF func.async.kind = "string"
    THEN Filter(ParametersOf(func), [i \in DOMAIN ParametersOf(func) |->
             ParametersOf(func)[i].name # func.async.str])
    ELSE Filter(ParametersOf(func), [i \in DOMAIN ParametersOf(func) |->
             ParametersOf(func)[i].name \notin {"callback", "responseCallback"}])
OptionalRequiredOptional ==
    /\ Compiled
    /\ [i \in DOMAIN VisibleParametersOf(CompiledFunction) |->
           VisibleParametersOf(CompiledFunction)[i].optional] = <<TRUE, FALSE, TRUE>>
Opt1 == VisibleParametersOf(CompiledFunction)[1]
Req1 == VisibleParametersOf(CompiledFunction)[2]
Opt2 == VisibleParametersOf(CompiledFunction)[3]
AsRequired(param) == [name |-> param.name, optional |-> FALSE]
KeepingCallback(param) ==
    [name |-> param.name, optional |-> param.name = "callback" /\ param.optional]

\* C6 as claimed: for visible parameters [opt1?, req1, opt2?] exactly two
\* signatures are emitted, one with [opt1, req1] and one with [opt1, req1, opt2],
\* every parameter rendered as required.
C6_TwoSignatures ==
    OptionalRequiredOptional =>
        /\ Len(Definition.signatures) = 2
        /\ {Definition.signatures[s].parameters : s \in DOMAIN Definition.signatures}
               = {<<AsRequired(Opt1), AsRequired(Req1)>>,
                  <<AsRequired(Opt1), AsRequired(Req1), AsRequired(Opt2)>>}

\* C6 amended: for visible parameters [opt1?, req1, opt2?] exactly three
\* signatures are emitted, in this order: [opt1, req1, opt2], [req1, opt2] and
\* [req1]; every parameter is rendered as required, except that a parameter
\* named callback keeps its own optionality.
C6_ThreeSignatures ==
    OptionalRequiredOptional =>
        /\ ~Definition.threw
        /\ [s \in DOMAIN Definition.signatures |-> Definition.signatures[s].parameters]
               = << <<KeepingCallback(Opt1), KeepingCallback(Req1), KeepingCallback(Opt2)>>,
                    <<KeepingCallback(Req1), KeepingCallback(Opt2)>>,
                    <<KeepingCallback(Req1)>> >>

C6_Witness ==
    /\ OptionalRequiredOptional
    /\ Len(Definition.signatures) = 3
    /\ Opt1.name # "callback"
    /\ Opt2.name = "callback"
    /\ Definition.signatures[1].parameters[3].optional

\* The function-typed parameter the compiled function's async field names.
NamesCallback ==
    /\ Compiled
    /\ CompiledFunction.async.kind = "string"
    /\ AsyncReturnTypeIndex(CompiledFunction) # 0
NamedCallback == ParametersOf(CompiledFunction)[AsyncReturnTypeIndex(CompiledFunction)]

\* C16 as claimed: when async names a function-typed parameter that declares
\* no nested parameters, the return type is the untyped fallback Promise<any>
\* (with the no-value variant when the parameter is an optional callback).
C16_NoNestedParametersGivesAny ==
    (NamesCallback /\ ParametersOf(NamedCallback) = <<>>) =>
        /\ ~Definition.threw
        /\ \A s \in DOMAIN Definition.signatures :
               Definition.signatures[s].returnType \in {"Promise<any>", "Promise<any | null>"}

\* C17 as claimed: the resolved type inside Promise<> is widened with | null
\* exactly when the parameter async names is optional, whether it is named
\* callback or responseCallback.
C17_OptionalNamedParameterWidens ==
    NamesCallback =>
        /\ ~Definition.threw
        /\ \A s \in DOMAIN Definition.signatures :
               EndsWith(Definition.signatures[s].returnType, " | null>")
                   <=> NamedCallback.optional

\* The visible parameters of the compiled function, 0 or the position of the
\* first optional one, and their number.
Visible == VisibleParametersOf(CompiledFunction)
FirstOptional == FindIndex([i \in DOMAIN Visible |-> Visible[i].optional])
OptionalCount == Len(Filter(Visible, [i \in DOMAIN Visible |-> Visible[i].optional]))

\* There is an optional visible parameter and every visible parameter at or
\* after the first optional one is optional.
AllTrailingOptional ==
    /\ Compiled
    /\ FirstOptional # 0
    /\ \A i \in FirstOptional..Len(Visible) : Visible[i].optional

OptionalBeforeRequired ==
    /\ Compiled
    /\ FirstOptional # 0
    /\ \E i \in (FirstOptional + 1)..Len(Visible) : ~Visible[i].optional

\* The parameters left after the first remaining optional one was dropped
\* j times.
RECURSIVE WithoutFirstOptionals(_, _)
WithoutFirstOptionals(params, j) ==
    IF j = 0 THEN params
    ELSE LET first == FindIndex([i \in DOMAIN params |-> params[i].optional])
         IN WithoutFirstOptionals(Filter(params, [i \in DOMAIN params |-> i # first]), j - 1)

\* C19: when an optional visible parameter precedes a later required one, with
\* n visible parameters of which k are optional, the cascade ends after k
\* iterations with exactly k + 1 signatures of n, n - 1, ..., n - k
\* parameters, each obtained from the one before by dropping the first
\* remaining optional parameter.
C19_CascadeEmitsKPlusOne ==
    OptionalBeforeRequired =>
        /\ ~Definition.threw
        /\ Len(Definition.signatures) = OptionalCount + 1
        /\ \A j \in DOMAIN Definition.signatures :
               /\ Len(Definition.signatures[j].parameters) = Len(Visible) - (j - 1)
               /\ [i \in DOMAIN Definition.signatures[j].parameters |->
                       Definition.signatures[j].parameters[i].name]
                      = [i \in DOMAIN WithoutFirstOptionals(Visible, j - 1) |->
                            WithoutFirstOptionals(Visible, j - 1)[i].name]

\* Two optional parameters before a required one: three signatures.
C19_Witness ==
    /\ OptionalBeforeRequired
    /\ [i \in DOMAIN Visible |-> Visible[i].optional] = <<TRUE, TRUE, FALSE>>
    /\ [j \in DOMAIN Definition.signatures |-> Len(Definition.signatures[j].parameters)]
           = <<3, 2, 1>>
    /\ Definition.signatures[2].parameters[1].name = Visible[2].name

----------------------------------------------------------------------------
(* Claims about getType, under SpecType.                                   *)

\* C7 as claimed: an array node whose items is the unqualified reference Foo,
\* compiled from namespace mail when only compose declares Foo, yields
\* compose.Foo[].
C7_ArrayItemsQualified ==
    \A k \in DOMAIN results :
        (/\ results[k].of = ArrayNode(<<RefNode("Foo")>>)
         /\ currentNamespace = "mail"
         /\ findNamespaceFortype("Foo", namespaces) = <<"compose">>) =>
            /\ ~results[k].returned.threw
            /\ results[k].returned.text = "compose.Foo[]"

\* C8 as claimed: compiling the same node twice against the same namespace
\* table yields the same text both times.
C8_GetTypeIdempotent ==
    Len(results) >= 2 =>
        /\ results[2].returned.threw = results[1].returned.threw
        /\ results[2].returned.text = results[1].returned.text

\* C10 as claimed: for an array node without items getType returns the
\* undeterminable marker type instead of throwing.
C10_MissingItemsRecoverable ==
    \A k \in DOMAIN results :
        (/\ results[k].of.ref = ""
         /\ results[k].of.type = "array"
         /\ results[k].of.items = <<>>) =>
            /\ ~results[k].returned.threw
            /\ results[k].returned.text = "void /* could not determine correct type */"

\* The namespaces of the table that declare a type with the id, in table order.
Declaring(id) ==
    Filter([i \in DOMAIN namespaces |-> namespaces[i].key],
           [i \in DOMAIN namespaces |->
               \E t \in Range(namespaces[i].value.types) : t.id = id])

\* A call of getType on a node that is an unqualified reference.
UnqualifiedRef(k) ==
    /\ results[k].of.ref # ""
    /\ ~Contains(results[k].of.ref, ".")

\* C11: when an unqualified $ref names a type id that no namespace of the
\* table declares, getType logs a warning and returns exactly the bare
\* identifier, without throwing, whatever the current namespace is.
C11_MissingRefWarnsAndStaysBare ==
    \A k \in DOMAIN results :
        (UnqualifiedRef(k) /\ Declaring(results[k].of.ref) = <<>>) =>
            /\ ~results[k].returned.threw
            /\ results[k].returned.text = results[k].of.ref
            /\ Len(results[k].returned.log) = 1
            /\ results[k].returned.log[1].level = "warn"

C11_Witness ==
    /\ Len(results) = 1
    /\ results[1].of = RefNode("Bar")
    /\ currentNamespace = "mail"
    /\ Declaring("Foo") # <<>>
    /\ results[1].returned.text = "Bar"
    /\ log = <<Warn("ERROR: namespace 'Bar' not found.")>>

\* C14: for an unqualified $ref compiled at top level with the namespace table
\* and a non-empty current namespace, when one or more namespaces declare the
\* id the namespace chosen is the last one in table order that declares it;
\* getType returns the bare identifier when that namespace is the current one
\* and chosenNamespace.identifier otherwise.
C14_LastDeclaringNamespaceWins ==
    \A k \in DOMAIN results :
        (/\ UnqualifiedRef(k)
         /\ currentNamespace # ""
         /\ Declaring(results[k].of.ref) # <<>>) =>
            LET declaring == Declaring(results[k].of.ref)
                chosen == declaring[Len(declaring)]
            IN /\ ~results[k].returned.threw
               /\ results[k].returned.text =
                      IF chosen = currentNamespace
                      THEN results[k].of.ref
                      ELSE chosen \o "." \o results[k].of.ref

\* Both namespaces declare Foo, the current namespace is the first of the
\* table, and the reference is qualified with the second.
C14_Witness ==
    /\ Len(results) = 1
    /\ results[1].of = RefNode("Foo")
    /\ Declaring("Foo") = <<"mail", "compose">>
    /\ currentNamespace = "mail"
    /\ results[1].returned.text = "compose.Foo"

\* C15 as claimed: an unqualified $ref that is the type of a property of an
\* object-typed node is compiled by the rule of a top-level $ref: when only a
\* namespace other than the current one declares its id, the member type is
\* resolvedNamespace.identifier, not the bare identifier.
C15_PropertyRefQualified ==
    \A k \in DOMAIN results :
        (/\ results[k].of.ref = ""
         /\ results[k].of.type = "object"
         /\ results[k].of.properties = << <<[name |-> "folder", prop |-> RefNode("Foo")]>> >>
         /\ currentNamespace # ""
         /\ Declaring("Foo") # <<>>
         /\ Declaring("Foo") # <<currentNamespace>>) =>
            /\ ~results[k].returned.threw
            /\ results[k].returned.text =
                   "{\n  " \o "    folder: "
                   \o getType(<<RefNode("Foo")>>, namespaces, currentNamespace).text
                   \o "\n" \o "\n  }"
            /\ results[k].returned.text # "{\n  " \o "    folder: Foo\n" \o "\n  }"

----------------------------------------------------------------------------
(* Claims about the run of generateTypings, under Spec.                    *)

\* A file of the run whose JSON value is no array (or no JSON at all).
ReadFails == \E i \in DOMAIN filenames : filenames[i].json # "array"

\* A namespace of the merged table whose compilation throws.
CompileThrows ==
    /\ pc \in {"generateTypingsFile", "done", "rejected"}
    /\ \E i \in DOMAIN MergedNamespaces(schemaParts, ignoredNamespaces) :
           NamespaceBlock(MergedNamespaces(schemaParts, ignoredNamespaces), i).threw

\* The whole text of index.d.ts for the files of the run.
WholeOutput ==
    Preamble \o Join([i \in DOMAIN MergedNamespaces(schemaParts, ignoredNamespaces) |->
                         NamespaceBlock(MergedNamespaces(schemaParts, ignoredNamespaces), i).text],
                     "")

\* C9: in every run the output file is written at most once, and only after
\* every input file was read, the merge was done and every namespace was
\* compiled (what is written is the whole text); when a file's JSON value is
\* not an array or the compilation of a node throws, the file is never written.
C9_WrittenOnceAfterEverything ==
    /\ [](/\ writes <= 1
          /\ (ReadFails \/ CompileThrows) => (writes = 0 /\ written = <<>>)
          /\ written # <<>> => written = <<WholeOutput>>)
    /\ [][writes' # writes =>
             /\ writes = 0
             /\ pc = "generateTypingsFile"
             /\ nRead = Len(filenames)
             /\ nCompiled = Len(namespaces)
             /\ Len(namespaces) = Len(MergedNamespaces(schemaParts, ignoredNamespaces))
             /\ data = WholeOutput]_vars

\* A run over two files and two namespaces has written the file.
C9_Witness ==
    /\ pc = "done"
    /\ writes = 1
    /\ nRead >= 2
    /\ nCompiled >= 2
    /\ written = <<data>>

\* The parts read for a namespace, in the order read.
PartsOf(namespace) ==
    Filter(schemaParts, [i \in DOMAIN schemaParts |-> schemaParts[i].namespace = namespace])

StartsWith(s, prefix) == Len(s) >= Len(prefix) /\ SubSeq(s, 1, Len(prefix)) = prefix

\* C20: a namespace entry built by mergeSchema from two or more parts carries
\* no description, whatever the descriptions of its parts, and its block in
\* the output starts without a leading comment; a namespace read from exactly
\* one part keeps that part's description and its block starts with it.
C20_MergedEntryLosesDescription ==
    \A i \in DOMAIN namespaces :
        LET parts == PartsOf(namespaces[i].key)
            block == NamespaceBlock(namespaces, i)
            declaration == "declare namespace browser." \o namespaces[i].key \o " {\n"
        IN /\ Len(parts) >= 2 =>
                  /\ namespaces[i].value.description = ""
                  /\ ~block.threw => StartsWith(block.text, declaration)
           /\ Len(parts) = 1 =>
                  /\ namespaces[i].value.description = parts[1].description
                  /\ ~block.threw =>
                         StartsWith(block.text,
                                    generateDescription(parts[1].description, 0)
                                    \o declaration)

\* Namespace mail was read from two parts, the first with a description, and
\* the file written starts its block without a comment.
C20_Witness ==
    /\ pc = "done"
    /\ Len(PartsOf("mail")) = 2
    /\ PartsOf("mail")[1].description # ""
    /\ namespaces # <<>>
    /\ namespaces[1].key = "mail"
    /\ namespaces[1].value.description = ""
    /\ StartsWith(written[1], Preamble \o "declare namespace browser.mail {\n")

====
